---------------------------- MODULE Spec2Model ----------------------------
(***************************************************************************)
(* The LSH index of src/python/lsh.py and its five samplers.               *)
(*                                                                         *)
(* Points and queries are identified by their position (0-based, as in the *)
(* source).  What the external collaborators return is an input of the     *)
(* model: the scalar hash outputs of a point (floor((xA+b)/w) for E2LSH,   *)
(* the parity of a minhash for OneBitMinHash) and the outcome of           *)
(* is_candidate_valid(Y[j], X[p]) are drawn from bounded sets.             *)
(***************************************************************************)
EXTENDS Integers, Sequences, FiniteSets, TLC

VARIABLES
    lsh,         \* the object LSHBuilder.build returned: [kind, k, L]
    pc,          \* where the program is
    err,         \* the exception that ended the program, "" when none
    n,           \* len(self.X)
    xscal,       \* the scalar hash outputs of the points X
    tables,      \* self.tables: 0..L-1 -> (bucket key -> set of point ids)
    m,           \* len(Y)
    qscal,       \* the scalar hash outputs of the queries Y
    valid,       \* valid[j][p] = is_candidate_valid(Y[j], X[p])
    ctx,         \* what preprocess_query(Y) returned
    method,      \* the sampler that runs
    runs,        \* its argument runs
    rpc,         \* opt's argument runs_per_collision
    j,           \* the query the sampler is at
    it,          \* the draws completed for query j
    results,     \* results: 0..m-1 -> sequence of samples
    ranks,       \* rank_query_simulate: ranks[i] is the point with rank i
    point_rank,  \* rank_query_simulate: point_rank[p] is the rank of p
    elements,    \* rank_query_simulate: the heap of (rank, point) entries
    rank,        \* rank_query_simulate: the rank of the entry popped last
    point,       \* the point the current draw holds
    num,         \* approx_degree: the probes made
    found,       \* approx_degree: the last probe hit a table that holds q
    D,           \* approx_degree_query: what approx_degree returned last
    twin         \* two runs of the same program, for reproducibility

vars == <<lsh, pc, err, n, xscal, tables, m, qscal, valid, ctx, method, runs, rpc,
          j, it, results, ranks, point_rank, elements, rank, point, num, found,
          D, twin>>

\* ------------------------------------------------------------------ bounds

MaxN == 2        \* points of the dataset
MaxM == 2        \* queries of a batch
MaxK == 2        \* scalar hash outputs per table
MaxL == 2        \* hash tables
MaxBits == 8     \* free bits of an input: scalar hash outputs and validity
MaxDraws == 4    \* draws one sampler call is asked for

\* the values one scalar hash output takes
HashVals == {0, 1}

\* ------------------------------------------------------------ LSHBuilder

methods == {"opt", "uniform", "weighted_uniform", "approx_degree", "rank"}

NoIndex == [kind |-> "unbuilt", k |-> 0, L |-> 0]

\* LSHBuilder.build: the object returned for lsh_params['type'], k and L
build(type, k, L) ==
    IF type = "e2lsh" THEN [kind |-> "E2LSH", k |-> k, L |-> L]
    ELSE IF type = "onebitminhash" THEN [kind |-> "OneBitMinHash", k |-> k, L |-> L]
    ELSE [kind |-> "None", k |-> 0, L |-> 0]

IsIndex(o) == o.kind \in {"E2LSH", "OneBitMinHash"}

\* ---------------------------------------------------------- hash families

\* OneBitMinHash._hash, the inner loop: h += hf._hash(x) % 2; h *= 2
RECURSIVE PackBits(_, _, _)
PackBits(scal, base, cnt) ==
    IF cnt = 0 THEN 0
    ELSE (PackBits(scal, base, cnt - 1) + scal[base + cnt - 1]) * 2

\* self._hash(X) for one point, from its k*L scalar hash outputs
Hash(o, scal) ==
    IF o.kind = "E2LSH" THEN scal
    ELSE [t \in 0..(o.L - 1) |-> PackBits(scal, t * o.k, o.k)]

\* self._get_hash_value(arr, idx)
GetHashValue(o, arr, idx) ==
    IF o.kind = "E2LSH" THEN [i \in 1..o.k |-> arr[idx * o.k + i - 1]]
    ELSE arr[idx]

\* the scalar hash outputs of cnt points under index o
Scalars(o, cnt) == [0..(cnt - 1) -> [0..(o.k * o.L - 1) -> HashVals]]

\* ------------------------------------------------------------ BucketIndex

EmptyDict == [x \in {} |-> {}]

\* a mutant of SetDefaultAdd: the bucket is overwritten
SetDefaultAddOverwrite(T, h, i) ==
    IF h \in DOMAIN T THEN [T EXCEPT ![h] = {i}] ELSE T @@ (h :> {i})

\* self.tables[j].setdefault(h, set()).add(i)
SetDefaultAdd(T, h, i) ==
    IF h \in DOMAIN T THEN [T EXCEPT ![h] = @ \cup {i}] ELSE T @@ (h :> {i})

\* preprocess, the loop over i in range(n), up to point cnt - 1
RECURSIVE BuildTables(_, _, _)
BuildTables(o, scal, cnt) ==
    IF cnt = 0 THEN [t \in 0..(o.L - 1) |-> EmptyDict]
    ELSE LET prev == BuildTables(o, scal, cnt - 1)
             hv == Hash(o, scal[cnt - 1])
         IN [t \in 0..(o.L - 1) |->
                SetDefaultAdd(prev[t], GetHashValue(o, hv, t), cnt - 1)]

\* self.tables[table].get(bucket, set())
Get(T, key) == IF key \in DOMAIN T THEN T[key] ELSE {}

\* ----------------------------------------------------------- QueryContext

\* a mutant of PrefixSum: the size of table i alone
PrefixSumNoCarry(tabs, buckets, i) ==
    IF i < 0 THEN 0 ELSE Cardinality(Get(tabs[buckets[i][1]], buckets[i][2]))

\* preprocess_query, the running sum s after table position i
RECURSIVE PrefixSum(_, _, _)
PrefixSum(tabs, buckets, i) ==
    IF i < 0 THEN 0
    ELSE PrefixSum(tabs, buckets, i - 1)
         + Cardinality(Get(tabs[buckets[i][1]], buckets[i][2]))

\* preprocess_query for one query: its buckets, sizes and candidates
QueryContext(o, tabs, scal, val) ==
    LET hv == Hash(o, scal)
        buckets == [i \in 0..(o.L - 1) |-> <<i, GetHashValue(o, hv, i)>>]
        union == UNION {Get(tabs[buckets[i][1]], buckets[i][2]) : i \in 0..(o.L - 1)}
        elems == {x \in union : val[x]}
    IN [query_buckets |-> buckets,
        query_size |-> Cardinality(elems),
        query_results |-> elems,
        bucket_sizes |-> PrefixSum(tabs, buckets, o.L - 1),
        prefix_sums |-> [i \in 0..(o.L - 1) |-> PrefixSum(tabs, buckets, i)]]

\* preprocess_query(Y)
PreprocessQuery(o, tabs, mm, scal, val) ==
    [q \in 0..(mm - 1) |-> QueryContext(o, tabs, scal[q], val[q])]

\* the raw union of the buckets of query q
RawUnion(q) ==
    UNION {Get(tables[ctx[q].query_buckets[i][1]], ctx[q].query_buckets[i][2]) :
              i \in 0..(lsh.L - 1)}

\* ------------------------------------------------------------ loop control

idxVars == <<lsh, n, xscal, tables>>
callVars == <<m, qscal, valid, ctx, method, runs, rpc>>
rankVars == <<ranks, point_rank, elements, rank>>

\* a mutant of Iterations: opt ignores runs_per_collision
IterationsAlwaysScaled(c, meth, rr, flag, q) == c[q].query_size * rr

\* the draws a sampler makes for query q: range(query_size[j] * runs), and
\* opt's iterations
Iterations(c, meth, rr, flag, q) ==
    IF meth = "opt" /\ ~flag THEN rr ELSE c[q].query_size * rr

Min(S) == CHOOSE x \in S : \A y \in S : x <= y

\* the first query from `from` on whose loop body runs at all; mm when none
NextActive(c, meth, rr, flag, mm, from) ==
    LET S == {q \in from..(mm - 1) : Iterations(c, meth, rr, flag, q) > 0}
    IN IF S = {} THEN mm ELSE Min(S)

\* where the loops over j and the draws stand after one more draw of query j
AfterDraw ==
    IF it + 1 < Iterations(ctx, method, runs, rpc, j)
    THEN [j |-> j, it |-> it + 1]
    ELSE [j |-> NextActive(ctx, method, runs, rpc, m, j + 1), it |-> 0]

PcAt(q) == IF q = m THEN "done" ELSE "run"

\* results[j].append(p), and the loops move on
Emit(p) ==
    /\ results' = [results EXCEPT ![j] = Append(@, p)]
    /\ j' = AfterDraw.j
    /\ it' = AfterDraw.it
    /\ pc' = PcAt(AfterDraw.j)

\* an exception leaves the sampler
Raise(e) ==
    /\ pc' = "error"
    /\ err' = e
    /\ UNCHANGED <<idxVars, callVars, rankVars, j, it, results, point, num, found, D, twin>>

\* --------------------------------------------------------------- the heap

\* a mutant of EntryLess: the order of the entries is reversed
EntryGreater(a, b) == a[1] > b[1] \/ (a[1] = b[1] /\ a[2] > b[2])

\* the order of the tuples (rank, point) that heapq keeps
EntryLess(a, b) == a[1] < b[1] \/ (a[1] = b[1] /\ a[2] < b[2])

\* heapq.heappush: the heap is kept as the ascending sequence of its entries,
\* so that heappop takes its head
RECURSIVE HeapPush(_, _)
HeapPush(h, e) ==
    IF h = <<>> THEN <<e>>
    ELSE IF EntryLess(e, Head(h)) THEN <<e>> \o h
    ELSE <<Head(h)>> \o HeapPush(Tail(h), e)

\* heapq.heapify of the entries (point_rank[point], point), point in S
RECURSIVE Heapify(_, _)
Heapify(pr, S) ==
    IF S = {} THEN <<>>
    ELSE LET p == CHOOSE x \in S : TRUE
         IN HeapPush(Heapify(pr, S \ {p}), <<pr[p], p>>)

\* the heap the loop over j holds when it reaches query q: the heap of q, and
\* past the last query the heap of the last
HeapAt(pr, c, mm, q) ==
    IF mm = 0 THEN <<>>
    ELSE IF q < mm THEN Heapify(pr, c[q].query_results)
    ELSE Heapify(pr, c[mm - 1].query_results)

\* a mutant of IsStale: no entry is taken to be stale
IsStaleNever(r, p, pr) == FALSE

\* rank != point_rank[point]
IsStale(r, p, pr) == r # pr[p]

\* the pop loops of one draw: heappop until the entry is not stale and its
\* point is valid; empty when heappop meets an empty heap (IndexError)
RECURSIVE PopLoop(_, _, _)
PopLoop(h, pr, val) ==
    IF h = <<>> THEN [empty |-> TRUE, rank |-> 0, point |-> 0, heap |-> h]
    ELSE LET e == Head(h)
         IN IF IsStale(e[1], e[2], pr) THEN PopLoop(Tail(h), pr, val)
            ELSE IF val[e[2]]
                 THEN [empty |-> FALSE, rank |-> e[1], point |-> e[2], heap |-> Tail(h)]
                 ELSE PopLoop(Tail(h), pr, val)

\* a mutant of SwapRanks: the sampled point is written, the displaced is not
SwapRanksLost(rk, r, new_rank, p) == [rk EXCEPT ![new_rank] = p]

\* ranks[rank] = q; ranks[new_rank] = point, with q = ranks[new_rank]
SwapRanks(rk, r, new_rank, p) ==
    [rk EXCEPT ![r] = rk[new_rank], ![new_rank] = p]

\* a mutant of SwapPointRank: the rank of the displaced point is not written
SwapPointRankSampledOnly(pr, q, r, new_rank, p) == [pr EXCEPT ![p] = new_rank]

\* point_rank[q] = rank; point_rank[point] = new_rank
SwapPointRank(pr, q, r, new_rank, p) ==
    [pr EXCEPT ![q] = r, ![p] = new_rank]

\* a mutant of PushAfterDraw: the displaced point is not pushed
PushSampledOnly(h, cands, q, r, new_rank, p) == HeapPush(h, <<new_rank, p>>)

\* the two heappush calls that end a draw
PushAfterDraw(h, cands, q, r, new_rank, p) ==
    LET h1 == HeapPush(h, <<new_rank, p>>)
    IN IF q \in cands THEN HeapPush(h1, <<r, q>>) ELSE h1

Shuffles(cnt) ==
    {f \in [0..(cnt - 1) -> 0..(cnt - 1)] :
        \A a, b \in 0..(cnt - 1) : f[a] = f[b] => a = b}

\* for rank, point in enumerate(ranks): point_rank[point] = rank
Inverse(rk, cnt) ==
    [p \in 0..(cnt - 1) |-> CHOOSE r \in 0..(cnt - 1) : rk[r] = p]

\* a mutant of BisectRight: bisect_left
BisectLeft(a, len, x) == Cardinality({i \in 0..(len - 1) : a[i] < x})

\* bisect_right(a, x) on the ascending list a of length len
BisectRight(a, len, x) == Cardinality({i \in 0..(len - 1) : a[i] <= x})

\* ---------------------------------------------------------------- actions

NoTwin == <<>>

\* no index is built and no sampler has run
InitProgram ==
    /\ lsh = NoIndex
    /\ pc = "start"
    /\ err = ""
    /\ n = 0
    /\ xscal = <<>>
    /\ tables = <<>>
    /\ m = 0
    /\ qscal = <<>>
    /\ valid = <<>>
    /\ ctx = <<>>
    /\ method = ""
    /\ runs = 0
    /\ rpc = TRUE
    /\ j = 0
    /\ it = 0
    /\ results = <<>>
    /\ ranks = <<>>
    /\ point_rank = <<>>
    /\ elements = <<>>
    /\ rank = 0
    /\ point = 0
    /\ num = 0
    /\ found = FALSE
    /\ D = 0

Init == InitProgram /\ twin = NoTwin

\* LSHBuilder.build(d, r, k, L, lsh_params)
Build(type, k, L) ==
    /\ pc = "start"
    /\ lsh' = build(type, k, L)
    /\ pc' = "built"
    /\ UNCHANGED <<err, n, xscal, tables, callVars, rankVars, j, it, results, point,
                   num, found, D, twin>>

\* lsh.preprocess(X), X of nn points with the scalar hash outputs scal; an
\* empty X (for E2LSH an array of shape (0, d)) leaves L empty tables
Preprocess(nn, scal) ==
    /\ pc = "built"
    /\ IsIndex(lsh)
    /\ n' = nn
    /\ xscal' = scal
    /\ tables' = BuildTables(lsh, scal, nn)
    /\ pc' = "ready"
    /\ UNCHANGED <<lsh, err, callVars, rankVars, j, it, results, point, num, found, D, twin>>

\* lsh.get_query_size(Y), Y of mm queries
GetQuerySize(mm, scal, val) ==
    /\ pc = "ready"
    /\ m' = mm
    /\ qscal' = scal
    /\ valid' = val
    /\ ctx' = PreprocessQuery(lsh, tables, mm, scal, val)
    /\ method' = "get_query_size"
    /\ pc' = "done"
    /\ UNCHANGED <<idxVars, err, runs, rpc, rankVars, j, it, results, point, num, found, D, twin>>

\* LSHBuilder.invoke(lsh, method, queries, runs) with a method the assert
\* rejects
InvokeUnknown(meth) ==
    /\ pc = "ready"
    /\ meth \notin methods
    /\ method' = meth
    /\ pc' = "error"
    /\ err' = "AssertionError"
    /\ UNCHANGED <<idxVars, m, qscal, valid, ctx, runs, rpc, rankVars, j, it,
                   results, point, num, found, D, twin>>

\* LSHBuilder.invoke with a known method, or the sampler called directly
\* (opt with runs_per_collision = flag): the sampler up to its first draw.
\* perm is what random.shuffle leaves in ranks.
Invoke(meth, mm, scal, val, rr, flag, perm) ==
    /\ pc = "ready"
    /\ meth \in methods
    /\ LET c == PreprocessQuery(lsh, tables, mm, scal, val)
           first == NextActive(c, meth, rr, flag, mm, 0)
       IN /\ ctx' = c
          /\ j' = first
          /\ pc' = IF first = mm THEN "done" ELSE "run"
          /\ IF meth = "rank"
             THEN /\ ranks' = perm
                  /\ point_rank' = Inverse(perm, n)
                  /\ elements' = HeapAt(Inverse(perm, n), c, mm, first)
             ELSE UNCHANGED <<ranks, point_rank, elements>>
    /\ method' = meth
    /\ m' = mm
    /\ qscal' = scal
    /\ valid' = val
    /\ runs' = rr
    /\ rpc' = flag
    /\ it' = 0
    /\ results' = [q \in 0..(mm - 1) |-> <<>>]
    /\ UNCHANGED <<idxVars, err, rank, point, num, found, D, twin>>

\* a mutant of OptIsEmpty: the sentinel branch is never taken
OptIsEmptyNever(q) == FALSE

\* opt: query_size[j] == 0
OptIsEmpty(q) == ctx[q].query_size = 0

\* opt: one iteration of the loop over range(iterations); random.choice of
\* an empty list raises IndexError
OptDraw ==
    /\ pc = "run"
    /\ method = "opt"
    /\ IF OptIsEmpty(j)
       THEN Emit(-1) /\ UNCHANGED <<err>>
       ELSE IF ctx[j].query_results = {}
       THEN Raise("IndexError")
       ELSE \E p \in ctx[j].query_results : Emit(p) /\ UNCHANGED <<err>>
    /\ UNCHANGED <<idxVars, callVars, rankVars, point, num, found, D, twin>>

\* a mutant of UniformAccepts: the validity of p is not asked
UniformAcceptsAny(q, p) == p # -1

\* uniform_query: p != -1 and self.is_candidate_valid(Y[j], self.X[p])
UniformAccepts(q, p) == p # -1 /\ valid[q][p]

\* uniform_query: one draw that meets the empty candidate set, or one
\* iteration of the rejection loop
UniformIter ==
    /\ pc = "run"
    /\ method = "uniform"
    /\ IF ctx[j].query_results = {}
       THEN Emit(-1) /\ UNCHANGED <<err>>
       ELSE IF lsh.L = 0
       THEN Raise("ValueError")
       ELSE \E t \in 0..(lsh.L - 1) :
               LET b == ctx[j].query_buckets[t]
                   T == tables[b[1]]
                   elems == IF b[2] \in DOMAIN T THEN T[b[2]] ELSE {-1}
               IN \E p \in elems :
                     IF UniformAccepts(j, p)
                     THEN Emit(p) /\ UNCHANGED <<err>>
                     ELSE UNCHANGED <<pc, err, j, it, results>>
    /\ UNCHANGED <<idxVars, callVars, rankVars, point, num, found, D, twin>>

\* weighted_uniform_query: one draw that meets the empty candidate set, or
\* one iteration of the rejection loop
WeightedIter ==
    /\ pc = "run"
    /\ method = "weighted_uniform"
    /\ IF ctx[j].query_results = {}
       THEN Emit(-1) /\ UNCHANGED <<err>>
       ELSE IF ctx[j].bucket_sizes <= 0
       THEN Raise("ValueError")
       ELSE \E i \in 0..(ctx[j].bucket_sizes - 1) :
               LET pos == BisectRight(ctx[j].prefix_sums, lsh.L, i)
               IN IF pos > lsh.L - 1
                  THEN Raise("IndexError")
                  ELSE LET b == ctx[j].query_buckets[pos]
                           T == tables[b[1]]
                       IN IF b[2] \notin DOMAIN T
                          THEN Raise("KeyError")
                          ELSE IF T[b[2]] = {}
                          THEN Raise("IndexError")
                          ELSE \E p \in T[b[2]] :
                                  IF valid[j][p]
                                  THEN Emit(p) /\ UNCHANGED <<err>>
                                  ELSE UNCHANGED <<pc, err, j, it, results>>
    /\ UNCHANGED <<idxVars, callVars, rankVars, point, num, found, D, twin>>

\* approx_degree_query: one draw that meets bucket_sizes[j] == 0, or one
\* iteration of the rejection loop up to the call of approx_degree
ApproxIter ==
    /\ pc = "run"
    /\ method = "approx_degree"
    /\ IF ctx[j].bucket_sizes = 0
       THEN Emit(-1) /\ UNCHANGED <<err, point, num, found, D>>
       ELSE \E i \in 0..(ctx[j].bucket_sizes - 1) :
               LET pos == BisectRight(ctx[j].prefix_sums, lsh.L, i)
               IN IF pos > lsh.L - 1
                  THEN Raise("IndexError")
                  ELSE LET b == ctx[j].query_buckets[pos]
                           T == tables[b[1]]
                       IN IF b[2] \notin DOMAIN T
                          THEN Raise("KeyError")
                          ELSE IF T[b[2]] = {}
                          THEN Raise("IndexError")
                          ELSE \E p \in T[b[2]] :
                                  IF ~valid[j][p]
                                  THEN UNCHANGED <<pc, err, j, it, results, point, num,
                                                       found, D>>
                                  ELSE /\ point' = p
                                       /\ num' = 0
                                       /\ found' = FALSE
                                       /\ pc' = "probe"
                                       /\ UNCHANGED <<err, j, it, results, D>>
    /\ UNCHANGED <<idxVars, callVars, rankVars, twin>>

\* a mutant of ApproxDegree: the probe that ends the loop is counted twice
ApproxDegreeCountedTwice(L, cnt) == L \div (cnt + 1)

\* approx_degree: return L // num
ApproxDegree(L, cnt) == L \div cnt

\* a mutant of ApproxAccepts: no outcome of the draw accepts
ApproxAcceptsNever(x, d) == x = 0

\* approx_degree_query: random.randint(1, D) == D
ApproxAccepts(x, d) == x = d

\* approx_degree: one probe of the loop while num < L; after the last probe
\* D = L // num is returned and random.randint(1, D) == D decides the draw
ApproxProbe ==
    /\ pc = "probe"
    /\ num < lsh.L
    /\ \E t \in 0..(lsh.L - 1) :
          LET b == ctx[j].query_buckets[t]
              hit == point \in Get(tables[b[1]], b[2])
          IN /\ num' = num + 1
             /\ found' = hit
             /\ IF hit \/ num + 1 >= lsh.L
                THEN LET d == ApproxDegree(lsh.L, num + 1)
                     IN /\ D' = d
                        /\ \E x \in 1..d :
                              IF ApproxAccepts(x, d) THEN Emit(point)
                              ELSE pc' = "run" /\ UNCHANGED <<j, it, results>>
                ELSE pc' = "probe" /\ UNCHANGED <<j, it, results, D>>
    /\ UNCHANGED <<idxVars, err, callVars, rankVars, point, twin>>

\* rank_query_simulate: the pop loops of one draw, and results[j].append
RankPop ==
    /\ pc = "run"
    /\ method = "rank"
    /\ LET r == PopLoop(elements, point_rank, valid[j])
       IN IF r.empty
          THEN Raise("IndexError")
          ELSE /\ rank' = r.rank
               /\ point' = r.point
               /\ elements' = r.heap
               /\ results' = [results EXCEPT ![j] = Append(@, r.point)]
               /\ pc' = "rerand"
               /\ UNCHANGED <<err, ranks, point_rank, j, it>>
    /\ UNCHANGED <<idxVars, callVars, num, found, D, twin>>

\* rank_query_simulate: the re-randomization that ends a draw, with
\* new_rank = random.randrange(rank, n), and the heap of the next query when
\* the draw was the last of its query
RankRerandomize ==
    /\ pc = "rerand"
    /\ \E new_rank \in rank..(n - 1) :
          LET q == ranks[new_rank]
              pr == SwapPointRank(point_rank, q, rank, new_rank, point)
              nxt == AfterDraw
          IN /\ ranks' = SwapRanks(ranks, rank, new_rank, point)
             /\ point_rank' = pr
             /\ elements' =
                   IF nxt.j = j \/ j = m - 1
                   THEN PushAfterDraw(elements, ctx[j].query_results, q, rank,
                                      new_rank, point)
                   ELSE HeapAt(pr, ctx, m, nxt.j)
             /\ j' = nxt.j
             /\ it' = nxt.it
             /\ pc' = PcAt(nxt.j)
    /\ UNCHANGED <<idxVars, err, callVars, rank, point, results, num, found, D, twin>>

\* ---------------------------------------------------------- specifications

IndexTypes == {"e2lsh", "onebitminhash"}

\* the inputs the bounds admit: an index of L tables with k scalar hash
\* outputs each, nn points, mm queries and rr runs
Fits(k, L, nn, mm, rr) ==
    /\ k <= MaxK
    /\ L <= MaxL
    /\ nn <= MaxN
    /\ mm <= MaxM
    /\ k * L * (nn + mm) + nn * mm <= MaxBits
    /\ (IF nn = 0 THEN 1 ELSE nn) * mm * rr <= MaxDraws

\* the arguments of a sampler call on the index as it stands
InvokeAny(meths) ==
    \E meth \in meths, mm \in 0..MaxM, rr \in 0..MaxDraws :
       /\ Fits(lsh.k, lsh.L, n, mm, rr)
       /\ \E scal \in Scalars(lsh, mm), val \in [0..(mm - 1) -> [0..(n - 1) -> BOOLEAN]] :
             \E flag \in (IF meth = "opt" THEN BOOLEAN ELSE {TRUE}),
                perm \in (IF meth = "rank" THEN Shuffles(n) ELSE {<<>>}) :
                Invoke(meth, mm, scal, val, rr, flag, perm)

\* the library as a caller may use it: any configuration, any dataset, any
\* batch of queries, any sampler
Next ==
    \/ pc = "start" /\ \E type \in IndexTypes \cup {"other"}, k \in 0..MaxK, L \in 0..MaxL :
                          Fits(k, L, 0, 0, 0) /\ Build(type, k, L)
    \/ pc = "built" /\ \E nn \in 0..MaxN :
                          /\ Fits(lsh.k, lsh.L, nn, 0, 0)
                          /\ \E scal \in Scalars(lsh, nn) : Preprocess(nn, scal)
    \/ pc = "ready" /\ \E mm \in 0..MaxM :
                          /\ Fits(lsh.k, lsh.L, n, mm, 0)
                          /\ \E scal \in Scalars(lsh, mm),
                                val \in [0..(mm - 1) -> [0..(n - 1) -> BOOLEAN]] :
                                GetQuerySize(mm, scal, val)
    \/ pc = "ready" /\ InvokeUnknown("nearest")
    \/ pc = "ready" /\ InvokeAny(methods)
    \/ OptDraw
    \/ UniformIter
    \/ WeightedIter
    \/ ApproxIter
    \/ ApproxProbe
    \/ RankPop
    \/ RankRerandomize

Spec == Init /\ [][Next]_vars

\* rank_query_simulate on an index of one table whose points and queries all
\* fall into one bucket, so that is_candidate_valid alone decides the
\* candidates of a query: the dataset may then hold one point more
ZeroScalars(cnt) == [p \in 0..(cnt - 1) |-> [i \in 0..0 |-> 0]]

NextRank ==
    \/ pc = "start" /\ Build("e2lsh", 1, 1)
    \/ pc = "built" /\ \E nn \in 1..(MaxN + 1) : Preprocess(nn, ZeroScalars(nn))
    \/ pc = "ready" /\ \E mm \in 1..MaxM, rr \in 1..(MaxDraws + 2) :
                          /\ n * mm <= MaxBits - 2
                          /\ n * mm * rr <= MaxDraws + 2
                          /\ \E val \in [0..(mm - 1) -> [0..(n - 1) -> BOOLEAN]],
                                perm \in Shuffles(n) :
                                Invoke("rank", mm, ZeroScalars(mm), val, rr, TRUE, perm)
    \/ RankPop
    \/ RankRerandomize

SpecRank == Init /\ [][NextRank]_vars

\* ------------------------------------------- rejection loops, fair draws

\* the samplers whose draws are rejection loops
rejecting == {"uniform", "weighted_uniform", "approx_degree"}

\* approx_degree_query: the probe after which the draw is accepted
ApproxAccept == ApproxProbe /\ results' # results

NextFair ==
    \/ pc = "start" /\ \E type \in IndexTypes, k \in 0..MaxK, L \in 0..MaxL :
                          Fits(k, L, 0, 0, 0) /\ Build(type, k, L)
    \/ pc = "built" /\ \E nn \in 0..MaxN :
                          /\ Fits(lsh.k, lsh.L, nn, 0, 0)
                          /\ \E scal \in Scalars(lsh, nn) : Preprocess(nn, scal)
    \/ pc = "ready" /\ InvokeAny(rejecting)
    \/ UniformIter
    \/ WeightedIter
    \/ ApproxIter
    \/ ApproxProbe

\* The loops run on: a step that can be taken is taken.  The random choices
\* are fair: an iteration that rejects leaves the state of a uniform or
\* weighted draw as it was, so an accepting choice that stays possible is
\* made at last (WF); an approx_degree draw goes through its probes, so an
\* accepting outcome that is possible again and again is chosen at last (SF).
SpecFair ==
    /\ Init
    /\ [][NextFair]_vars
    /\ WF_vars(UniformIter)
    /\ WF_vars(WeightedIter)
    /\ WF_vars(ApproxIter)
    /\ WF_vars(ApproxProbe)
    /\ SF_vars(ApproxAccept)

\* ------------------------------------------------- two runs, one seed

\* The generators behind `random` and `numpy.random` are deterministic
\* automata: a state, seed(s) that sets it, and draws that read and advance
\* it.  RngSize states stand for the generator's.
RngSize == 4
DefaultSeed == 3

RngStates == 0..(RngSize - 1)

\* random.seed(s), np.random.seed(s)
SeedState(s) == s % RngSize

\* the state after cnt draws
RngAfter(g, cnt) == (g + cnt) % RngSize

\* the value of the draw made in state g
RngValue(g) == g

TwinCoords == {0, 1}

\* MinHash.__init__: the lookup table, entry by entry from `random`
MinHashTable(g) == [x \in TwinCoords |-> RngValue(RngAfter(g, x))]

\* a mutant of E2LSHInit: the generators are not seeded
E2LSHInitUnseeded(run, seed) ==
    [run EXCEPT !.o = [kind |-> "E2LSH", k |-> 1, L |-> 1],
                !.par = [A |-> RngValue(run.nprng),
                         b |-> RngValue(RngAfter(run.nprng, 1)) % 2],
                !.nprng = RngAfter(run.nprng, 2)]

\* E2LSH.__init__ with k = L = d = 1 and w = 2: both generators are seeded,
\* then A and b are drawn from numpy's
E2LSHInit(run, seed) ==
    [run EXCEPT !.o = [kind |-> "E2LSH", k |-> 1, L |-> 1],
                !.par = [A |-> RngValue(SeedState(seed)),
                         b |-> RngValue(RngAfter(SeedState(seed), 1)) % 2],
                !.nprng = RngAfter(SeedState(seed), 2),
                !.rng = SeedState(seed)]

\* OneBitMinHash.__init__ with k = L = 1: seed is not used, the MinHash
\* table is drawn from `random` as it stands
OneBitMinHashInit(run, seed) ==
    [run EXCEPT !.o = [kind |-> "OneBitMinHash", k |-> 1, L |-> 1],
                !.par = MinHashTable(run.rng),
                !.rng = RngAfter(run.rng, Cardinality(TwinCoords))]

\* the scalar hash outputs of the points pts: E2LSH._hash,
\* floor((x * A + b) / w), and OneBitMinHash._hash, hf._hash(x) % 2 with
\* the point the one-token set {x}
TwinScalars(run, pts) ==
    [p \in DOMAIN pts |->
        [i \in 0..0 |->
            IF run.o.kind = "E2LSH"
            THEN (pts[p] * run.par.A + run.par.b) \div 2
            ELSE run.par[pts[p]] % 2]]

\* the elements of S in ascending order: list(set of small ints)
RECURSIVE ListOf(_)
ListOf(S) == IF S = {} THEN <<>> ELSE <<Min(S)>> \o ListOf(S \ {Min(S)})

\* opt: the draws of one query, left iterations to make, from state g
RECURSIVE OptDraws(_, _, _)
OptDraws(elems, left, g) ==
    IF left = 0 THEN [out |-> <<>>, rng |-> g]
    ELSE IF elems = <<>>
    THEN LET rest == OptDraws(elems, left - 1, g)
         IN [out |-> <<-1>> \o rest.out, rng |-> rest.rng]
    ELSE LET rest == OptDraws(elems, left - 1, RngAfter(g, 1))
         IN [out |-> <<elems[(RngValue(g) % Len(elems)) + 1]>> \o rest.out,
             rng |-> rest.rng]

\* opt(Y, runs) of one run, query by query; validation is off
RECURSIVE OptAll(_, _, _, _, _)
OptAll(c, mm, rr, q, g) ==
    IF q = mm THEN [out |-> <<>>, rng |-> g]
    ELSE LET mine == OptDraws(ListOf(c[q].query_results),
                              Iterations(c, "opt", rr, TRUE, q), g)
             rest == OptAll(c, mm, rr, q + 1, mine.rng)
         IN [out |-> <<mine.out>> \o rest.out, rng |-> rest.rng]

TwinOpt(run, qs, rr) ==
    LET mm == Len(qs)
        pts == [q \in 0..(mm - 1) |-> qs[q + 1]]
        val == [q \in 0..(mm - 1) |-> [p \in 0..(run.n - 1) |-> TRUE]]
        c == PreprocessQuery(run.o, run.tables, mm, TwinScalars(run, pts), val)
        r == OptAll(c, mm, rr, 0, run.rng)
    IN [run EXCEPT !.out = r.out, !.rng = r.rng]

TwinPreprocessRun(run, xs) ==
    LET pts == [p \in 0..(Len(xs) - 1) |-> xs[p + 1]]
    IN [run EXCEPT !.n = Len(xs),
                   !.tables = BuildTables(run.o, TwinScalars(run, pts), Len(xs))]

FreshRun(g, h) ==
    [rng |-> g, nprng |-> h, o |-> NoIndex, par |-> <<>>, n |-> 0,
     tables |-> <<>>, out |-> <<>>]

\* the two runs start from any states of the two generators
InitTwin ==
    /\ InitProgram
    /\ twin \in {<<FreshRun(g1, h1), FreshRun(g2, h2)>> : g1, g2, h1, h2 \in RngStates}

progVars == <<lsh, err, n, xscal, tables, callVars, rankVars, j, it, results,
              point, num, found, D>>

\* both runs construct the index with the same arguments and seed
TwinBuild(type, seed) ==
    /\ pc = "start"
    /\ twin' = [i \in 1..2 |->
                  IF type = "e2lsh" THEN E2LSHInit(twin[i], seed)
                  ELSE OneBitMinHashInit(twin[i], seed)]
    /\ pc' = "built"
    /\ UNCHANGED progVars

\* both runs preprocess the same dataset
TwinPreprocess(xs) ==
    /\ pc = "built"
    /\ twin' = [i \in 1..2 |-> TwinPreprocessRun(twin[i], xs)]
    /\ pc' = "ready"
    /\ UNCHANGED progVars

\* both runs make the same sampling call
TwinSample(qs, rr) ==
    /\ pc = "ready"
    /\ twin' = [i \in 1..2 |-> TwinOpt(twin[i], qs, rr)]
    /\ pc' = "done"
    /\ UNCHANGED progVars

TwinSeqs(len) == UNION {[1..l -> TwinCoords] : l \in 1..len}

NextTwin ==
    \/ \E type \in IndexTypes, seed \in 0..DefaultSeed : TwinBuild(type, seed)
    \/ \E xs \in TwinSeqs(MaxN) : TwinPreprocess(xs)
    \/ \E qs \in TwinSeqs(MaxM), rr \in 1..2 : TwinSample(qs, rr)

SpecTwin == InitTwin /\ [][NextTwin]_vars

\* ----------------------------------------------------------------- claims

Sampling == method \in methods
Points == 0..(n - 1)
Queries == 0..(m - 1)

\* the validated candidates of query q, from the tables and the predicate
Validated(q) == {x \in RawUnion(q) : valid[q][x]}

\* the entries of heap h equal to e
Copies(h, e) == Cardinality({i \in 1..Len(h) : h[i] = e})

\* C1: in rank_query_simulate, after the setup and after every completed
\* draw, ranks is a permutation of the point ids 0..n-1 and point_rank is its
\* inverse: ranks[point_rank[p]] = p for every point p.
C1_RanksInverse ==
    (method = "rank" /\ pc \in {"run", "done"}) =>
        /\ DOMAIN ranks = Points
        /\ DOMAIN point_rank = Points
        /\ {ranks[r] : r \in Points} = Points
        /\ \A p \in Points : point_rank[p] \in Points /\ ranks[point_rank[p]] = p

\* draws of two queries are completed, the last of them left the rank of
\* its point as it was, and the ranks differ from the identity
C1_Witness ==
    /\ method = "rank"
    /\ pc = "run"
    /\ j = 1
    /\ it >= 1
    /\ Len(results[0]) >= 2
    /\ point_rank[point] = rank
    /\ \E p \in Points : ranks[p] # p

\* C2: in rank_query_simulate, the entry (rank, point) whose point is
\* appended to the results is not stale when it is emitted:
\* rank = point_rank[point].
C2_EmittedFresh ==
    pc = "rerand" =>
        /\ results[j] # <<>>
        /\ results[j][Len(results[j])] = point
        /\ rank = point_rank[point]

\* a sample is emitted for the second query while the heap still holds an
\* entry that an earlier draw made stale
C2_Witness ==
    /\ pc = "rerand"
    /\ j = 1
    /\ it >= 1
    /\ \E i \in 1..Len(elements) : elements[i][1] # point_rank[elements[i][2]]

\* C3: for every sampler and every query, each entry of the output sequence
\* is the sentinel -1 or a point of the raw union of the query's buckets
\* that passes is_candidate_valid.
C3_OutputsValidated ==
    Sampling =>
        \A q \in Queries : \A i \in 1..Len(results[q]) :
            results[q][i] = -1 \/ results[q][i] \in Validated(q)

\* uniform_query has emitted a point for a query whose buckets also hold a
\* point that fails validity
C3_Witness ==
    /\ method = "uniform"
    /\ pc = "done"
    /\ \E q \in Queries :
          /\ \E i \in 1..Len(results[q]) : results[q][i] # -1
          /\ \E x \in RawUnion(q) : ~valid[q][x]

\* C4: for a query whose validated candidate set is empty, no sampler raises
\* or enters a rejection loop, its output holds no entry but the sentinel -1,
\* and the sentinel is there once per draw the sampler makes for the query
\* (runs for opt without multiplicity scaling, none otherwise).
C4_EmptyCandidates ==
    Sampling =>
        \A q \in Queries : Validated(q) = {} =>
            /\ \A i \in 1..Len(results[q]) : results[q][i] = -1
            /\ pc = "error" => j # q
            /\ (pc \in {"run", "probe", "rerand"} /\ j = q) => (method = "opt" /\ ~rpc)
            /\ (pc = "done" \/ j > q) =>
                  Len(results[q]) = (IF method = "opt" /\ ~rpc THEN runs ELSE 0)

\* opt without multiplicity scaling has returned with sentinels for a query
\* whose buckets hold points that all fail validity
C4_Witness ==
    /\ method = "opt"
    /\ ~rpc
    /\ pc = "done"
    /\ \E q \in Queries :
          /\ Validated(q) = {}
          /\ RawUnion(q) # {}
          /\ Len(results[q]) >= 2

\* C5: the result mapping has one key per query index 0..m-1; when the
\* sampler has returned, the output of query q has |validated candidates of
\* q| * runs entries, and for opt without multiplicity scaling runs entries;
\* no sampler ends in an exception.
C5_OutputLengths ==
    Sampling =>
        /\ DOMAIN results = Queries
        /\ pc # "error"
        /\ pc = "done" =>
              \A q \in Queries :
                 Len(results[q]) = (IF method = "opt" /\ ~rpc THEN runs
                                    ELSE Cardinality(Validated(q)) * runs)

\* the rank sampler has returned the outputs of two queries with candidates
C5_Witness ==
    /\ method = "rank"
    /\ pc = "done"
    /\ m = 2
    /\ Len(results[0]) >= 2
    /\ Len(results[1]) >= 1

\* C6: in rank_query_simulate each point has at most one fresh entry in the
\* heap of the query that is processed.
C6_AtMostOneFresh ==
    (method = "rank" /\ pc \in {"run", "rerand", "done"}) =>
        \A p \in Points : Copies(elements, <<point_rank[p], p>>) <= 1

\* C7: after preprocess(X) every point p is in exactly one bucket of every
\* table t, the key of that bucket is _get_hash_value(hash(p), t), and no
\* bucket is empty or holds an id outside 0..n-1.
C7_BuildInvariant ==
    pc \in {"ready", "run", "probe", "rerand", "done", "error"} =>
        /\ DOMAIN tables = 0..(lsh.L - 1)
        /\ \A t \in 0..(lsh.L - 1) :
              /\ \A p \in Points :
                    LET key == GetHashValue(lsh, Hash(lsh, xscal[p]), t)
                    IN /\ key \in DOMAIN tables[t]
                       /\ \A h \in DOMAIN tables[t] : p \in tables[t][h] <=> h = key
              /\ \A h \in DOMAIN tables[t] :
                    tables[t][h] # {} /\ tables[t][h] \subseteq Points

\* two points share a bucket of table 0 and are apart in table 1
C7_Witness ==
    /\ pc = "ready"
    /\ n = 2
    /\ lsh.L = 2
    /\ lsh.k >= 1
    /\ Cardinality(DOMAIN tables[0]) = 1
    /\ Cardinality(DOMAIN tables[1]) = 2

\* C8: malformed configuration ends in an error: an unknown strategy name,
\* an unknown hash family type, k <= 0 or L <= 0, an empty dataset.
C8_MalformedFailsFast ==
    /\ (pc # "start" /\ (~IsIndex(lsh) \/ lsh.k <= 0 \/ lsh.L <= 0)) => pc = "error"
    /\ (pc \notin {"start", "built"} /\ n = 0) => pc = "error"
    /\ (method \notin methods \cup {"", "get_query_size"}) => pc = "error"

\* the bucket sizes of query q, table by table
BucketSize(q, i) ==
    Cardinality(Get(tables[ctx[q].query_buckets[i][1]], ctx[q].query_buckets[i][2]))

HasContext == method \in methods \cup {"get_query_size"}

\* C10, as stated: the prefix sums of every query are strictly increasing
\* over the L tables, equal the running sum of the bucket sizes, and end in
\* the total bucket size.
C10_PrefixStrict ==
    HasContext =>
        \A q \in Queries :
            /\ \A i \in 0..(lsh.L - 2) :
                  ctx[q].prefix_sums[i] < ctx[q].prefix_sums[i + 1]
            /\ \A i \in 0..(lsh.L - 1) :
                  ctx[q].prefix_sums[i] =
                     (IF i = 0 THEN 0 ELSE ctx[q].prefix_sums[i - 1]) + BucketSize(q, i)
            /\ lsh.L >= 1 => ctx[q].bucket_sizes = ctx[q].prefix_sums[lsh.L - 1]

\* C10, amended: the prefix sums of every query are non-decreasing over the
\* L tables (two neighbours are equal exactly where the query's bucket key is
\* absent from the later table), equal the running sum of the bucket sizes
\* with an absent bucket counted as 0, and end in the total bucket size.
C10_PrefixRunningSum ==
    HasContext =>
        \A q \in Queries :
            /\ DOMAIN ctx[q].prefix_sums = 0..(lsh.L - 1)
            /\ \A i \in 0..(lsh.L - 2) :
                  /\ ctx[q].prefix_sums[i] <= ctx[q].prefix_sums[i + 1]
                  /\ ctx[q].prefix_sums[i] = ctx[q].prefix_sums[i + 1]
                        <=> ctx[q].query_buckets[i + 1][2] \notin DOMAIN tables[i + 1]
            /\ \A i \in 0..(lsh.L - 1) :
                  ctx[q].prefix_sums[i] =
                     (IF i = 0 THEN 0 ELSE ctx[q].prefix_sums[i - 1]) + BucketSize(q, i)
            /\ ctx[q].bucket_sizes =
                  (IF lsh.L >= 1 THEN ctx[q].prefix_sums[lsh.L - 1] ELSE 0)

\* the bucket key of a query is absent from the second table and present in
\* the first
C10_Witness ==
    /\ HasContext
    /\ lsh.L = 2
    /\ \E q \in Queries :
          /\ ctx[q].query_buckets[1][2] \notin DOMAIN tables[1]
          /\ ctx[q].prefix_sums[0] = 2
          /\ ctx[q].prefix_sums[1] = 2

\* C9: both hash families are deterministic given a fixed seed: two runs
\* that construct the index with the same seed and arguments and make the
\* same preprocess and sampling calls return the same outputs, whatever the
\* generators' states were before the construction.
C9_SeedDeterministic ==
    (twin # NoTwin /\ pc = "done") => twin[1].out = twin[2].out

\* the part of C9 that the code keeps: the runs of E2LSH, which seeds both
\* generators in its constructor, agree
E2LSHDeterministic ==
    (twin # NoTwin /\ pc = "done" /\ twin[1].o.kind = "E2LSH") =>
        twin[1].out = twin[2].out

\* C11: in rank_query_simulate every draw for query j emits the validated
\* candidate of j whose point_rank is the smallest among the validated
\* candidates of j when the draw starts, whatever draws came before.
C11_EmitsMinimumRank ==
    pc = "rerand" =>
        /\ point \in Validated(j)
        /\ \A c \in Validated(j) : point_rank[point] <= point_rank[c]

\* a later draw of the second query emits one of several candidates, and the
\* candidate of the smallest rank is not the point of rank 0
C11_Witness ==
    /\ pc = "rerand"
    /\ j = 1
    /\ it >= 1
    /\ Cardinality(Validated(1)) >= 2
    /\ results[0] # <<>>
    /\ point_rank[point] > 0

\* C12: in rank_query_simulate, when a draw for query j starts, the heap
\* holds a fresh entry (point_rank[p], p) for every validated candidate p of
\* j; the pop loops do not meet an empty heap, and no draw ends in an
\* exception.
C12_FreshEntryPerCandidate ==
    method = "rank" =>
        /\ pc # "error"
        /\ pc = "run" =>
              /\ Validated(j) # {}
              /\ \A p \in Validated(j) : Copies(elements, <<point_rank[p], p>>) >= 1
              /\ ~PopLoop(elements, point_rank, valid[j]).empty

\* a draw of the second query starts after draws of both queries, with a
\* stale entry in the heap and ranks that an earlier query has reassigned
C12_Witness ==
    /\ method = "rank"
    /\ pc = "run"
    /\ j = 1
    /\ it >= 1
    /\ Cardinality(Validated(1)) >= 2
    /\ results[0] # <<>>
    /\ \E i \in 1..Len(elements) : elements[i][1] # point_rank[elements[i][2]]

\* C13: the re-randomization of a draw that sampled point at rank picks
\* new_rank with rank <= new_rank < n; afterwards point_rank[point] is
\* new_rank, the point q that occupied new_rank has point_rank[q] = rank,
\* which is not above its rank before, and the rank of every other point is
\* as it was.
C13_RerandomizeFrame ==
    [][pc = "rerand" =>
          \E new_rank \in rank..(n - 1) :
             LET q == ranks[new_rank]
             IN /\ point_rank[q] = new_rank
                /\ point_rank'[point] = new_rank
                /\ point_rank'[q] = rank
                /\ point_rank'[q] <= point_rank[q]
                /\ point_rank'[point] >= point_rank[point]
                /\ \A x \in Points \ {point, q} : point_rank'[x] = point_rank[x]]_vars

\* a draw has moved its point to a higher rank and another point down to
\* the rank the sampled point had, with a third point in the dataset
C13_Witness ==
    /\ method = "rank"
    /\ pc \in {"run", "done"}
    /\ n = 3
    /\ results[0] # <<>>
    /\ point_rank[point] > rank
    /\ ranks[rank] # point
    /\ point_rank[ranks[rank]] = rank

\* the table position a slot i of query q is looked up at
SlotPosition(q, i) == BisectRight(ctx[q].prefix_sums, lsh.L, i)

\* C14: in weighted_uniform_query and approx_degree_query, for every i with
\* 0 <= i < total bucket size of the query, bisect_right(prefix_sums, i) is
\* a table position in 0..L-1 whose bucket is in the table and is not empty,
\* as many values i map to a position as its bucket has elements, and the
\* lookup tables[table][bucket] does not fail.
C14_SlotLookup ==
    method \in {"weighted_uniform", "approx_degree"} =>
        /\ pc # "error"
        /\ \A q \in Queries :
              /\ \A i \in 0..(ctx[q].bucket_sizes - 1) :
                    LET pos == SlotPosition(q, i)
                    IN /\ pos \in 0..(lsh.L - 1)
                       /\ ctx[q].query_buckets[pos][2]
                             \in DOMAIN tables[ctx[q].query_buckets[pos][1]]
                       /\ BucketSize(q, pos) > 0
              /\ \A pos \in 0..(lsh.L - 1) :
                    Cardinality({i \in 0..(ctx[q].bucket_sizes - 1) :
                                    SlotPosition(q, i) = pos}) = BucketSize(q, pos)

\* weighted_uniform_query has sampled for a query whose bucket is absent
\* from the first table and holds two points in the second
C14_Witness ==
    /\ method = "weighted_uniform"
    /\ pc = "done"
    /\ lsh.L = 2
    /\ \E q \in Queries :
          /\ results[q] # <<>>
          /\ ctx[q].query_buckets[0][2] \notin DOMAIN tables[0]
          /\ BucketSize(q, 1) = 2

\* C16: approx_degree(buckets, q) with L = len(buckets) >= 1 makes at most L
\* probes and goes on only while no probe has hit; it returns L // num,
\* where num in 1..L counts the probes up to the first that hit a table
\* holding q, or is L when none hit; the result D is an integer in 1..L,
\* and is 1 when q was found in none of the probed tables.
C16_ApproxDegree ==
    method = "approx_degree" =>
        /\ num <= lsh.L
        /\ pc = "probe" => (~found /\ num < lsh.L)
        /\ (pc \in {"run", "done"} /\ num >= 1) =>
              /\ lsh.L >= 1
              /\ D = lsh.L \div num
              /\ 1 <= D
              /\ D <= lsh.L
              /\ ~found => (num = lsh.L /\ D = 1)

\* approx_degree has returned 1 after two probes of which none hit, for a
\* point that is in one of the two buckets of the query
C16_Witness ==
    /\ method = "approx_degree"
    /\ pc \in {"run", "done"}
    /\ lsh.L = 2
    /\ num = 2
    /\ ~found
    /\ D = 1

\* a draw of a rejection sampler is under way
InDraw == method \in rejecting /\ pc \in {"run", "probe"}

\* the sampler has returned, with a sample for every draw of every query
AllDrawn ==
    /\ pc = "done"
    /\ \A q \in Queries :
          /\ Len(results[q]) = Cardinality(Validated(q)) * runs
          /\ \A i \in 1..Len(results[q]) : results[q][i] \in Validated(q)

\* some choice of this iteration accepts
AcceptExists ==
    /\ (pc = "run" /\ method = "uniform") => ENABLED <<UniformIter>>_vars
    /\ (pc = "run" /\ method = "weighted_uniform") => ENABLED <<WeightedIter>>_vars
    /\ (pc = "run" /\ method = "approx_degree") => ENABLED <<ApproxIter>>_vars
    /\ pc = "probe" => ENABLED ApproxAccept

\* C15: a draw of uniform_query, weighted_uniform_query or
\* approx_degree_query that is under way is for a query with validated
\* candidates and has an accepting choice in every iteration of its loop;
\* under fair random choices every draw accepts a point and ends, so that
\* the sampler returns with a validated point for each of its draws.
C15_DrawsEnd ==
    /\ [](InDraw => (ctx[j].query_results # {} /\ AcceptExists))
    /\ InDraw ~> AllDrawn

\* approx_degree_query has returned; the last point it accepted collides
\* in both tables, so that the draw random.randint(1, 2) could have rejected
\* it, and the buckets of its query hold a point that fails validity
C15_Witness ==
    /\ method = "approx_degree"
    /\ pc = "done"
    /\ D = 2
    /\ \E q \in Queries :
          /\ results[q] # <<>>
          /\ results[q][Len(results[q])] = point
          /\ \E x \in RawUnion(q) : ~valid[q][x]

=============================================================================
